---- MODULE Spec2Model ----
(***************************************************************************)
(* Room / turn state machine of the whiteboard relay server (src/index.js). *)
(* One action per socket.io event handler; every handler runs to completion *)
(* before the next event is taken (single-threaded event loop).             *)
(***************************************************************************)
EXTENDS Integers, Sequences, FiniteSets, TLC

\* ---------------------------------------------------------------- bounds
\* Most member-list entries the registry holds in total (the code has no
\* limit; join-room is not taken beyond it).
MaxMembers == 3

\* ------------------------------------------------------------ input sets
\* Connection identities (socket.id); each is issued once by the transport.
Conns == {"A", "B", "C"}
\* JavaScript values that are not strings sent by clients.
Null == "#null"
Undefined == "#undefined"
NoPayload == "#none"

\* Room names a client may send: a string, or nothing at all (the handler
\* then sees undefined, and rooms[undefined] is the property "undefined").
RoomNames == {"r1", Undefined}
\* Drawing fields carried by start-drawing / drawing payloads.
Fields == {"f1"}

DrawEvents == {"start-drawing", "drawing", "finish-drawing", "clear-canvas"}

VARIABLES
    rooms,      \* the registry: room key -> [users, currentTurnIndex]
    sockets,    \* per connection: [status, roomName]
    adapter,    \* per connection: the broadcast groups it is subscribed to
    ev,         \* the event processed last
    out,        \* the messages emitted while processing ev, in order
    prevRooms,  \* the registry as it was before ev
    turnRun,    \* turn indexes of ev.room over the current run of pass-turn events
    reads,      \* the users[index] reads made while processing ev, in order
    lastTurn,   \* per room key: payload of the latest turn-update sent for it
    joinOrder   \* per room key: the connected connections that joined, in order

vars == <<rooms, sockets, adapter, ev, out, prevRooms, turnRun, reads,
          lastTurn, joinOrder>>

\* ------------------------------------------------------- pure helpers
\* rooms[roomName]: a property access converts its key to a string.
ToPropertyKey(v) == IF v = Undefined THEN "undefined" ELSE v

\* arr[i] on a 0-based JavaScript array: undefined outside the array.
ArrayGet(arr, i) == IF i >= 0 /\ i < Len(arr) THEN arr[i + 1] ELSE Undefined

\* arr.indexOf(x): first 0-based position of x, or -1.
indexOf(arr, x) ==
    IF \E i \in 1..Len(arr) : arr[i] = x
    THEN (CHOOSE i \in 1..Len(arr) :
             arr[i] = x /\ \A j \in 1..(i - 1) : arr[j] # x) - 1
    ELSE -1

FilterOutHead(arr, socketId) == IF arr = <<>> THEN arr ELSE Tail(arr)

\* arr.filter(id => id !== socketId)
FilterOut(arr, socketId) == SelectSeq(arr, LAMBDA id : id # socketId)

HasRoom(rms, roomName) == ToPropertyKey(roomName) \in DOMAIN rms

getActiveUser(rms, roomName) ==
    IF ~HasRoom(rms, roomName) THEN Null
    ELSE LET room == rms[ToPropertyKey(roomName)]
         IN  IF Len(room.users) = 0 THEN Null
             ELSE ArrayGet(room.users, room.currentTurnIndex)

\* The users[currentTurnIndex] read getActiveUser makes, with the length the
\* list has at that moment; none when it returns null.
UserReads(rms, roomName) ==
    IF ~HasRoom(rms, roomName) THEN <<>>
    ELSE LET room == rms[ToPropertyKey(roomName)]
         IN  IF Len(room.users) = 0 THEN <<>>
             ELSE <<[index |-> room.currentTurnIndex, length |-> Len(room.users)]>>

\* Recipients of io.in(roomName): the connections subscribed to the group.
InRoom(adp, roomName) == {c \in Conns : roomName \in adp[c]}

Emit(event, roomName, payload, to) ==
    [event |-> event, room |-> roomName, payload |-> payload, to |-> to]

broadcastTurnUpdate(rms, adp, roomName) ==
    <<Emit("turn-update", roomName, getActiveUser(rms, roomName),
           InRoom(adp, roomName))>>

\* ------------------------------------------------------------ registry
NewRoom == [users |-> <<>>, currentTurnIndex |-> 0]

PushUserFirst(users, id) == <<id>> \o users

PushUser(users, id) == Append(users, id)

SetRoom(rms, key, room) ==
    [k \in DOMAIN rms \cup {key} |-> IF k = key THEN room ELSE rms[k]]

DeleteRoomKeepsEntry(rms, key) == rms

DeleteRoom(rms, key) == [k \in DOMAIN rms \ {key} |-> rms[k]]

NextTurnIndexNoWrap(room) == room.currentTurnIndex + 1

NextTurnIndex(room) == (room.currentTurnIndex + 1) % Len(room.users)

passTurnAnnouncesFirst(rms, adp, roomName) ==
    IF ~HasRoom(rms, roomName) \/ Len(rms[ToPropertyKey(roomName)].users) = 0
    THEN [rooms |-> rms, out |-> <<>>, reads |-> <<>>]
    ELSE LET key == ToPropertyKey(roomName)
             r1  == [rms EXCEPT ![key].currentTurnIndex = NextTurnIndex(rms[key])]
         IN  [rooms |-> r1, out |-> broadcastTurnUpdate(rms, adp, roomName),
              reads |-> UserReads(rms, roomName)]

\* passTurn(roomName): the new registry and the messages emitted.
passTurn(rms, adp, roomName) ==
    IF ~HasRoom(rms, roomName) \/ Len(rms[ToPropertyKey(roomName)].users) = 0
    THEN [rooms |-> rms, out |-> <<>>, reads |-> <<>>]
    ELSE LET key == ToPropertyKey(roomName)
             r1  == [rms EXCEPT ![key].currentTurnIndex = NextTurnIndex(rms[key])]
         IN  [rooms |-> r1, out |-> broadcastTurnUpdate(r1, adp, roomName),
              reads |-> UserReads(r1, roomName)]

\* ------------------------------------------------------------ state
NoEvent == [type |-> "none", sender |-> Null, room |-> Null, data |-> NoPayload]

Event(type, sender, roomName, data) ==
    [type |-> type, sender |-> sender, room |-> roomName, data |-> data]

Last(s, n) == IF Len(s) <= n THEN s ELSE SubSeq(s, Len(s) - n + 1, Len(s))

\* The turn indexes a room went through during the pass-turn events that
\* followed one another on it with nothing in between, the index before the
\* first of them included; the last MaxMembers + 1 entries are kept.
RunAfter(roomName, before, after) ==
    IF ~HasRoom(after, roomName) THEN <<>>
    ELSE LET key == ToPropertyKey(roomName)
             old == IF ev.type = "pass-turn" /\ ev.room = roomName /\ turnRun # <<>>
                    THEN turnRun
                    ELSE <<before[key].currentTurnIndex>>
         IN  Last(Append(old, after[key].currentTurnIndex), MaxMembers + 1)

RECURSIVE SumLen(_, _)
SumLen(rms, keys) ==
    IF keys = {} THEN 0
    ELSE LET k == CHOOSE x \in keys : TRUE
         IN  Len(rms[k].users) + SumLen(rms, keys \ {k})

TotalEntries(rms) == SumLen(rms, DOMAIN rms)

\* The property keys the room names stand for.
RoomKeys == {ToPropertyKey(r) : r \in RoomNames}

\* The latest turn-update payload per room once msgs have been emitted; a
\* room that left the registry has none (it is created afresh by a later join).
AnnouncedAfter(last, rms, msgs) ==
    [k \in RoomKeys |->
        IF k \notin DOMAIN rms THEN Null
        ELSE LET hits == {i \in 1..Len(msgs) :
                             /\ msgs[i].event = "turn-update"
                             /\ ToPropertyKey(msgs[i].room) = k}
             IN  IF hits = {} THEN last[k]
                 ELSE msgs[CHOOSE i \in hits : \A j \in hits : j <= i].payload]

\* ------------------------------------------------------------ handlers
\* handleDrawEvent's security check.
IsTheirTurnAnyone(id, activeSocketId) == activeSocketId # Null

IsTheirTurn(id, activeSocketId) == id = activeSocketId

DrawHandlerEcho(type, adp, id, data) ==
    CASE type = "start-drawing" ->
            <<Emit("server-start-drawing", data.room, data, InRoom(adp, data.room))>>
      [] type = "drawing" ->
            <<Emit("server-drawing", data.room, data, InRoom(adp, data.room))>>
      [] type = "finish-drawing" ->
            <<Emit("server-finish-drawing", data.room, NoPayload, InRoom(adp, data.room))>>
      [] type = "clear-canvas" ->
            <<Emit("server-clear-canvas", data.room, NoPayload, InRoom(adp, data.room))>>

\* The emit of each drawing-class handler once the check has passed.
DrawHandler(type, adp, id, data) ==
    CASE type = "start-drawing" ->
            <<Emit("server-start-drawing", data.room, data, InRoom(adp, data.room) \ {id})>>
      [] type = "drawing" ->
            <<Emit("server-drawing", data.room, data, InRoom(adp, data.room) \ {id})>>
      [] type = "finish-drawing" ->
            <<Emit("server-finish-drawing", data.room, NoPayload, InRoom(adp, data.room) \ {id})>>
      [] type = "clear-canvas" ->
            <<Emit("server-clear-canvas", data.room, NoPayload, InRoom(adp, data.room))>>

handleDrawEvent(type, rms, adp, id, data) ==
    LET activeSocketId == getActiveUser(rms, data.room)
    IN  IF IsTheirTurn(id, activeSocketId)
        THEN DrawHandler(type, adp, id, data)
        ELSE <<>>

RegistryAfterDrawEndsTurn(rms, id, data) ==
    IF HasRoom(rms, data.room) /\ id = getActiveUser(rms, data.room)
    THEN [rms EXCEPT ![ToPropertyKey(data.room)].currentTurnIndex =
                         NextTurnIndex(rms[ToPropertyKey(data.room)])]
    ELSE rms

\* The registry after a drawing-class event: neither handleDrawEvent nor the
\* emitting handlers assign to rooms or to a room's fields.
RegistryAfterDraw(rms, id, data) == rms

\* The disconnect handler's tests.
WasTheirTurnNever(rms, roomName, id) == FALSE

WasTheirTurn(rms, roomName, id) == getActiveUser(rms, roomName) = id

RoomIsEmptyNever(users) == FALSE

RoomIsEmpty(users) == Len(users) = 0

\* The index the handler settles on when the leaver did not hold the turn.
RecomputedIndexStale(rms, roomName) == rms[ToPropertyKey(roomName)].currentTurnIndex

RecomputedIndex(rms, roomName) ==
    LET activeUser == getActiveUser(rms, roomName)
        newIndex   == indexOf(rms[ToPropertyKey(roomName)].users, activeUser)
    IN  IF newIndex # -1 THEN newIndex ELSE 0

disconnectSilentReset(rms, adp, id, roomName) ==
    IF ~HasRoom(rms, roomName) THEN [rooms |-> rms, out |-> <<>>, reads |-> <<>>]
    ELSE LET key == ToPropertyKey(roomName)
             wasTheirTurn == WasTheirTurn(rms, roomName, id)
             r1 == [rms EXCEPT ![key].users = FilterOut(@, id)]
         IN  IF RoomIsEmpty(r1[key].users)
             THEN [rooms |-> DeleteRoom(r1, key), out |-> <<>>,
                   reads |-> UserReads(rms, roomName)]
             ELSE IF wasTheirTurn
             THEN LET r2 == [r1 EXCEPT ![key].currentTurnIndex = 0]
                  IN  [rooms |-> r2, out |-> <<>>,
                       reads |-> UserReads(rms, roomName)]
             ELSE LET r2 == [r1 EXCEPT ![key].currentTurnIndex = RecomputedIndex(r1, roomName)]
                  IN  [rooms |-> r2, out |-> broadcastTurnUpdate(r2, adp, roomName),
                       reads |-> UserReads(rms, roomName) \o UserReads(r1, roomName)
                                     \o UserReads(r2, roomName)]

\* The disconnect handler: the new registry, the messages emitted and the
\* users[index] reads made on the way.
disconnect(rms, adp, id, roomName) ==
    IF ~HasRoom(rms, roomName) THEN [rooms |-> rms, out |-> <<>>, reads |-> <<>>]
    ELSE LET key == ToPropertyKey(roomName)
             wasTheirTurn == WasTheirTurn(rms, roomName, id)
             r1 == [rms EXCEPT ![key].users = FilterOut(@, id)]
         IN  IF RoomIsEmpty(r1[key].users)
             THEN [rooms |-> DeleteRoom(r1, key), out |-> <<>>,
                   reads |-> UserReads(rms, roomName)]
             ELSE IF wasTheirTurn
             THEN LET r2 == [r1 EXCEPT ![key].currentTurnIndex = 0]
                  IN  [rooms |-> r2, out |-> broadcastTurnUpdate(r2, adp, roomName),
                       reads |-> UserReads(rms, roomName) \o UserReads(r2, roomName)]
             ELSE LET r2 == [r1 EXCEPT ![key].currentTurnIndex = RecomputedIndex(r1, roomName)]
                  IN  [rooms |-> r2, out |-> broadcastTurnUpdate(r2, adp, roomName),
                       reads |-> UserReads(rms, roomName) \o UserReads(r1, roomName)
                                     \o UserReads(r2, roomName)]

\* ------------------------------------------------------------ actions
Init ==
    /\ rooms = [k \in {} |-> NewRoom]
    /\ sockets = [c \in Conns |-> [status |-> "new", roomName |-> Undefined]]
    /\ adapter = [c \in Conns |-> {}]
    /\ ev = NoEvent
    /\ out = <<>>
    /\ prevRooms = [k \in {} |-> NewRoom]
    /\ turnRun = <<>>
    /\ reads = <<>>
    /\ lastTurn = [k \in RoomKeys |-> Null]
    /\ joinOrder = [k \in RoomKeys |-> <<>>]

\* io.on('connection'): the transport hands over a fresh connection.
Connect(c) ==
    /\ sockets[c].status = "new"
    /\ sockets' = [sockets EXCEPT ![c].status = "connected"]
    /\ ev' = Event("connection", c, Null, NoPayload)
    /\ out' = <<>>
    /\ prevRooms' = rooms
    /\ turnRun' = <<>>
    /\ reads' = <<>>
    /\ UNCHANGED <<rooms, adapter, lastTurn, joinOrder>>

\* socket.on('join-room', roomName)
JoinRoom(c, roomName) ==
    /\ sockets[c].status = "connected"
    /\ TotalEntries(rooms) < MaxMembers
    /\ LET key == ToPropertyKey(roomName)
           adp == [adapter EXCEPT ![c] = @ \cup {roomName}]
           r0  == IF key \in DOMAIN rooms THEN rooms ELSE SetRoom(rooms, key, NewRoom)
           r1  == [r0 EXCEPT ![key].users = PushUser(@, c)]
       IN  /\ adapter' = adp
           /\ sockets' = [sockets EXCEPT ![c].roomName = roomName]
           /\ rooms' = r1
           /\ out' = broadcastTurnUpdate(r1, adp, roomName)
           /\ reads' = UserReads(r1, roomName)
           /\ lastTurn' = AnnouncedAfter(lastTurn, r1, broadcastTurnUpdate(r1, adp, roomName))
           /\ joinOrder' = [joinOrder EXCEPT ![key] = Append(@, c)]
    /\ ev' = Event("join-room", c, roomName, NoPayload)
    /\ prevRooms' = rooms
    /\ turnRun' = <<>>

\* socket.on('pass-turn', data)
PassTurn(c, roomName) ==
    /\ sockets[c].status = "connected"
    /\ LET res == passTurn(rooms, adapter, roomName)
       IN  /\ rooms' = res.rooms
           /\ out' = res.out
           /\ turnRun' = RunAfter(roomName, rooms, res.rooms)
           /\ reads' = res.reads
           /\ lastTurn' = AnnouncedAfter(lastTurn, res.rooms, res.out)
    /\ ev' = Event("pass-turn", c, roomName, NoPayload)
    /\ prevRooms' = rooms
    /\ UNCHANGED <<sockets, adapter, joinOrder>>

\* socket.on('start-drawing' | 'drawing' | 'finish-drawing' | 'clear-canvas', data)
Draw(type, c, data) ==
    /\ sockets[c].status = "connected"
    /\ out' = handleDrawEvent(type, rooms, adapter, c, data)
    /\ reads' = UserReads(rooms, data.room)
    /\ rooms' = RegistryAfterDraw(rooms, c, data)
    /\ ev' = Event(type, c, data.room, data)
    /\ prevRooms' = rooms
    /\ turnRun' = <<>>
    /\ UNCHANGED <<sockets, adapter, lastTurn, joinOrder>>

\* socket.on('disconnect'): the transport has already unsubscribed the
\* connection from its broadcast groups when the handler runs.
Disconnect(c) ==
    /\ sockets[c].status = "connected"
    /\ LET adp == [adapter EXCEPT ![c] = {}]
           res == disconnect(rooms, adp, c, sockets[c].roomName)
       IN  /\ adapter' = adp
           /\ rooms' = res.rooms
           /\ out' = res.out
           /\ reads' = res.reads
           /\ lastTurn' = AnnouncedAfter(lastTurn, res.rooms, res.out)
    /\ joinOrder' = [k \in RoomKeys |-> SelectSeq(joinOrder[k], LAMBDA m : m # c)]
    /\ sockets' = [sockets EXCEPT ![c].status = "disconnected"]
    /\ ev' = Event("disconnect", c, sockets[c].roomName, NoPayload)
    /\ prevRooms' = rooms
    /\ turnRun' = <<>>

\* The payloads a client sends with a drawing-class event.
DrawData(type) ==
    IF type \in {"start-drawing", "drawing"}
    THEN [room : RoomNames, fields : Fields]
    ELSE [room : RoomNames, fields : {NoPayload}]

Next ==
    \/ \E c \in Conns : Connect(c)
    \/ \E c \in Conns, r \in RoomNames : JoinRoom(c, r)
    \/ \E c \in Conns, r \in RoomNames : PassTurn(c, r)
    \/ \E type \in DrawEvents, c \in Conns : \E data \in DrawData(type) : Draw(type, c, data)
    \/ \E c \in Conns : Disconnect(c)

Spec == Init /\ [][Next]_vars

\* The same server with clients that send join-room at most once per
\* connection.
JoinRoomOnce(c, roomName) ==
    /\ adapter[c] = {}
    /\ JoinRoom(c, roomName)

NextOnce ==
    \/ \E c \in Conns : Connect(c)
    \/ \E c \in Conns, r \in RoomNames : JoinRoomOnce(c, r)
    \/ \E c \in Conns, r \in RoomNames : PassTurn(c, r)
    \/ \E type \in DrawEvents, c \in Conns : \E data \in DrawData(type) : Draw(type, c, data)
    \/ \E c \in Conns : Disconnect(c)

SpecOnce == Init /\ [][NextOnce]_vars

\* ------------------------------------------------------------ vocabulary
Range(s) == {s[i] : i \in 1..Len(s)}

Members(rms, roomName) ==
    IF HasRoom(rms, roomName) THEN Range(rms[ToPropertyKey(roomName)].users) ELSE {}

Connected(c) == sockets[c].status = "connected"

\* The only message of the last event is a turn-update for roomName that
\* carries id and reaches every connected member of the room.
TurnUpdateSent(roomName, id) ==
    /\ Len(out) = 1
    /\ out[1].event = "turn-update"
    /\ out[1].room = roomName
    /\ out[1].payload = id
    /\ \A m \in Members(rooms, roomName) : Connected(m) => m \in out[1].to

\* ---------------------------------------------------------------- claims

\* C1: every room present in the registry satisfies
\* 0 <= currentTurnIndex < length(users), after any sequence of events.
C1_IndexInRange ==
    \A k \in DOMAIN rooms :
        /\ 0 <= rooms[k].currentTurnIndex
        /\ rooms[k].currentTurnIndex < Len(rooms[k].users)

\* A disconnect shortened a list below the index the room had before it.
C1_Witness ==
    /\ ev.type = "disconnect"
    /\ HasRoom(prevRooms, ev.room) /\ HasRoom(rooms, ev.room)
    /\ prevRooms[ToPropertyKey(ev.room)].currentTurnIndex
           >= Len(rooms[ToPropertyKey(ev.room)].users)

\* C2: when a member that is not the active turn holder disconnects and the
\* room it is removed from keeps at least one member, the active connection
\* after the disconnect is the one that was active before it, wherever the
\* removed member stood in the list, and the turn-update carries it.
C2_SameHolderKept ==
    ( /\ ev.type = "disconnect"
      /\ ev.sender \in Members(prevRooms, ev.room)
      /\ getActiveUser(prevRooms, ev.room) # ev.sender
      /\ HasRoom(rooms, ev.room) )
    => /\ getActiveUser(rooms, ev.room) = getActiveUser(prevRooms, ev.room)
       /\ TurnUpdateSent(ev.room, getActiveUser(prevRooms, ev.room))

\* C3: a drawing-class event whose sender is not the room's active connection
\* (a non-member, or a room absent from the registry, included) emits nothing.
C3_TurnGate ==
    ( /\ ev.type \in DrawEvents
      /\ ev.sender # getActiveUser(prevRooms, ev.room) )
    => out = <<>>

\* A member of the room that does not hold the turn sent a drawing event.
C3_Witness ==
    /\ ev.type \in DrawEvents
    /\ ev.sender \in Members(rooms, ev.room)
    /\ ev.sender # getActiveUser(rooms, ev.room)
    /\ out = <<>>

\* C4: in every room of the registry the connection at currentTurnIndex is
\* still connected.
C4_HolderConnected ==
    \A r \in RoomNames :
        HasRoom(rooms, r) =>
            \E c \in Conns : c = getActiveUser(rooms, r) /\ Connected(c)

\* C5: no room of the registry has an empty member list.
C5_NoEmptyRoom ==
    \A k \in DOMAIN rooms : Len(rooms[k].users) > 0

\* The last member of a room disconnected and the room is gone.
C5_Witness ==
    /\ ev.type = "disconnect"
    /\ HasRoom(prevRooms, ev.room)
    /\ ~HasRoom(rooms, ev.room)

\* C6: no room's member list contains the same connection identity twice,
\* a connection joining the same room more than once included.
C6_NoDuplicates ==
    \A k \in DOMAIN rooms :
        \A i, j \in 1..Len(rooms[k].users) :
            i # j => rooms[k].users[i] # rooms[k].users[j]

\* C7: n pass-turn events that follow one another on a room of n members
\* make each member the active connection exactly once, in join order with
\* wrap-around, and bring the index back to where it started.
C7_RoundRobin ==
    ( /\ ev.type = "pass-turn"
      /\ HasRoom(rooms, ev.room)
      /\ Len(turnRun) >= Len(rooms[ToPropertyKey(ev.room)].users) + 1 )
    => LET users == rooms[ToPropertyKey(ev.room)].users
           n     == Len(users)
           run   == Last(turnRun, n + 1)
       IN  /\ run[n + 1] = run[1]
           /\ \A k \in 1..n : run[k + 1] = (run[k] + 1) % n
           /\ \A m \in Range(users) :
                  Cardinality({k \in 2..(n + 1) : ArrayGet(users, run[k]) = m}) = 1

C9_Join ==
    ev.type = "join-room" =>
        LET key == ToPropertyKey(ev.room)
        IN  /\ HasRoom(rooms, ev.room)
            /\ ~HasRoom(prevRooms, ev.room) =>
                   rooms[key] = [users |-> <<ev.sender>>, currentTurnIndex |-> 0]
            /\ HasRoom(prevRooms, ev.room) =>
                   /\ rooms[key].users = Append(prevRooms[key].users, ev.sender)
                   /\ rooms[key].currentTurnIndex = prevRooms[key].currentTurnIndex
                   /\ getActiveUser(rooms, ev.room) = getActiveUser(prevRooms, ev.room)
            /\ \A k \in DOMAIN prevRooms \ {key} :
                   k \in DOMAIN rooms /\ rooms[k] = prevRooms[k]
            /\ TurnUpdateSent(ev.room, getActiveUser(rooms, ev.room))
            /\ getActiveUser(rooms, ev.room) \in Conns
            /\ ev.sender \in out[1].to

\* A connection joined an existing room whose turn had moved on.
C9_Witness ==
    /\ ev.type = "join-room"
    /\ HasRoom(prevRooms, ev.room)
    /\ prevRooms[ToPropertyKey(ev.room)].currentTurnIndex > 0

\* C10: a pass-turn from any current member of the room, active or not, sets
\* currentTurnIndex to (currentTurnIndex + 1) mod length(users), leaves the
\* member list unchanged and broadcasts the new active connection to the room.
C10_PassTurn ==
    ( /\ ev.type = "pass-turn"
      /\ ev.sender \in Members(prevRooms, ev.room) )
    => LET key == ToPropertyKey(ev.room)
       IN  /\ HasRoom(rooms, ev.room)
           /\ rooms[key].users = prevRooms[key].users
           /\ rooms[key].currentTurnIndex =
                  (prevRooms[key].currentTurnIndex + 1) % Len(prevRooms[key].users)
           /\ DOMAIN rooms = DOMAIN prevRooms
           /\ \A k \in DOMAIN rooms \ {key} : rooms[k] = prevRooms[k]
           /\ TurnUpdateSent(ev.room, ArrayGet(rooms[key].users, rooms[key].currentTurnIndex))
           /\ getActiveUser(rooms, ev.room) \in Conns

\* A member that did not hold the turn passed it from the last position.
C10_Witness ==
    /\ ev.type = "pass-turn"
    /\ ev.sender \in Members(prevRooms, ev.room)
    /\ ev.sender # getActiveUser(prevRooms, ev.room)
    /\ Len(rooms[ToPropertyKey(ev.room)].users) > 1
    /\ rooms[ToPropertyKey(ev.room)].currentTurnIndex = 0

\* C11: when the sender is the room's active connection, start-drawing,
\* drawing and finish-drawing each produce exactly one relay addressed to the
\* room without the sender, clear-canvas exactly one broadcast addressed to the
\* whole room, sender included; start-drawing and drawing relay the payload
\* they received.
C11_Relay ==
    ( /\ ev.type \in DrawEvents
      /\ ev.sender = getActiveUser(prevRooms, ev.room) )
    => /\ Len(out) = 1
       /\ out[1].event = "server-" \o ev.type
       /\ out[1].room = ev.room
       /\ \A m \in Members(rooms, ev.room) \ {ev.sender} : Connected(m) => m \in out[1].to
       /\ ev.type # "clear-canvas" => ev.sender \notin out[1].to
       /\ ev.type = "clear-canvas" => ev.sender \in out[1].to
       /\ ev.type \in {"start-drawing", "drawing"} =>
              /\ out[1].payload = ev.data
              /\ out[1].payload.fields \in Fields
              /\ out[1].payload.room = ev.room
       /\ ev.type \in {"finish-drawing", "clear-canvas"} => out[1].payload = NoPayload

\* The active connection of a room with another connected member drew.
C11_Witness ==
    /\ ev.type = "drawing"
    /\ ev.sender = getActiveUser(rooms, ev.room)
    /\ \E m \in Members(rooms, ev.room) \ {ev.sender} : Connected(m) /\ m \in out[1].to

C13_FreshTurnUpdate ==
    \A i \in 1..Len(out) :
        out[i].event = "turn-update" =>
            out[i].payload = getActiveUser(rooms, out[i].room)

\* A turn-update announced a holder other than the one before the event.
C13_Witness ==
    /\ ev.type \in {"pass-turn", "disconnect"}
    /\ Len(out) = 1
    /\ out[1].event = "turn-update"
    /\ HasRoom(prevRooms, out[1].room)
    /\ out[1].payload # getActiveUser(prevRooms, out[1].room)

\* C14: a pass-turn from a connection that is not a member of the room it
\* names leaves the registry unchanged and emits nothing; only a member's
\* pass-turn changes the index and emits a turn-update.
C14_PassTurnByMemberOnly ==
    ( /\ ev.type = "pass-turn"
      /\ ev.sender \notin Members(prevRooms, ev.room) )
    => /\ rooms = prevRooms
       /\ out = <<>>

\* C15: at no point while an event is processed, the steps of a disconnect
\* between the removal of the member and the recomputation of the index
\* included, is the member list read at an index outside 0 .. length(users)-1.
C15_ReadsInRange ==
    \A i \in 1..Len(reads) :
        0 <= reads[i].index /\ reads[i].index < reads[i].length

\* C16: every drawing-class event, relayed or dropped, leaves the whole
\* registry unchanged: no room is created or deleted and no member list or
\* currentTurnIndex changes.
C16_DrawKeepsRegistry ==
    ev.type \in DrawEvents => rooms = prevRooms

\* A drawing event was relayed in a room of several entries.
C16_Witness ==
    /\ ev.type \in DrawEvents
    /\ out # <<>>
    /\ Len(rooms[ToPropertyKey(ev.room)].users) > 1

\* C17: a disconnect from a connection that never joined any room leaves the
\* registry unchanged and emits no outbound message.
C17_OrphanDisconnect ==
    ( /\ ev.type = "disconnect"
      /\ \A k \in DOMAIN prevRooms : ev.sender \notin Range(prevRooms[k].users) )
    => /\ rooms = prevRooms
       /\ out = <<>>

\* C18: for every room in the registry the payload of the most recent
\* turn-update sent for it equals the room's current active connection, and no
\* event changes a room's active connection without a turn-update that
\* announces the new holder.
C18_AnnouncedHolder ==
    /\ \A k \in DOMAIN rooms : lastTurn[k] = getActiveUser(rooms, k)
    /\ \A k \in DOMAIN rooms :
           (k \notin DOMAIN prevRooms
               \/ getActiveUser(rooms, k) # getActiveUser(prevRooms, k))
           => \E i \in 1..Len(out) :
                  /\ out[i].event = "turn-update"
                  /\ ToPropertyKey(out[i].room) = k
                  /\ out[i].payload = getActiveUser(rooms, k)

\* A disconnect moved the turn of a room that lives on.
C18_Witness ==
    /\ ev.type = "disconnect"
    /\ HasRoom(rooms, ev.room) /\ HasRoom(prevRooms, ev.room)
    /\ getActiveUser(rooms, ev.room) # getActiveUser(prevRooms, ev.room)
    /\ lastTurn[ToPropertyKey(ev.room)] = getActiveUser(rooms, ev.room)

\* C19: when every connection sends join-room at most once, each room's
\* member list is the sequence of still-connected connections that joined it,
\* in join order; a disconnected connection is in no member list, and with no
\* connection left the registry has no rooms.
C19_MembersAreJoiners ==
    /\ \A k \in RoomKeys :
           IF k \in DOMAIN rooms THEN rooms[k].users = joinOrder[k]
           ELSE joinOrder[k] = <<>>
    /\ \A c \in Conns :
           sockets[c].status = "disconnected" =>
               \A k \in DOMAIN rooms : c \notin Range(rooms[k].users)
    /\ (\A c \in Conns : ~Connected(c)) => DOMAIN rooms = {}

\* A member left a room of three and the two others remain.
C19_Witness ==
    /\ ev.type = "disconnect"
    /\ HasRoom(rooms, ev.room) /\ HasRoom(prevRooms, ev.room)
    /\ Len(prevRooms[ToPropertyKey(ev.room)].users) = 3
    /\ Len(rooms[ToPropertyKey(ev.room)].users) = 2
====
